---- MODULE Spec2Model ----
(***************************************************************************)
(* Model of the ratio-decidendi pipeline of src/agent/graph.py: nine stage *)
(* functions wired into a langgraph StateGraph by static edges, run over a *)
(* State of two overwrite channels (messages, current_step).               *)
(*                                                                         *)
(* Python lists are modelled as objects on a heap (a sequence of lists, a  *)
(* reference is an index), so that "a + b" (a fresh list) and an in-place  *)
(* append are different things.                                            *)
(***************************************************************************)
EXTENDS Naturals, Sequences, FiniteSets, TLC

\* ---- bounds of the model ----
MaxRuns == 2          \* invocations of graph.invoke in one behaviour
MaxSeedLen == 2       \* turns in the caller's initial messages

\* ---- turns ----
HumanMessage(c) == [role |-> "human", content |-> c]
AIMessage(c) == [role |-> "ai", content |-> c]

\* ---- the graph (graph.py:117-145) ----
END == "__end__"

NodeOrder ==
  << "summarizer", "express_issue_identifier", "decision_extractor",
     "argument_identifier", "implicit_issue_identifier", "reasoning_tracer",
     "initial_ratio_decider", "material_fact_highlighter",
     "final_ratio_decider" >>

Nodes == { NodeOrder[i] : i \in 1..Len(NodeOrder) }

\* variants of the edge table: a skipped stage, and a back edge from the last stage
Edge_Skip(n) ==
  CASE n = "decision_extractor" -> "implicit_issue_identifier"
    [] n = "summarizer" -> "express_issue_identifier"
    [] n = "express_issue_identifier" -> "decision_extractor"
    [] n = "argument_identifier" -> "implicit_issue_identifier"
    [] n = "implicit_issue_identifier" -> "reasoning_tracer"
    [] n = "reasoning_tracer" -> "initial_ratio_decider"
    [] n = "initial_ratio_decider" -> "material_fact_highlighter"
    [] n = "material_fact_highlighter" -> "final_ratio_decider"
    [] n = "final_ratio_decider" -> END

Edge_Cycle(n) ==
  CASE n = "final_ratio_decider" -> "summarizer"
    [] n = "summarizer" -> "express_issue_identifier"
    [] n = "express_issue_identifier" -> "decision_extractor"
    [] n = "decision_extractor" -> "argument_identifier"
    [] n = "argument_identifier" -> "implicit_issue_identifier"
    [] n = "implicit_issue_identifier" -> "reasoning_tracer"
    [] n = "reasoning_tracer" -> "initial_ratio_decider"
    [] n = "initial_ratio_decider" -> "material_fact_highlighter"
    [] n = "material_fact_highlighter" -> "final_ratio_decider"

Edge(n) ==
  CASE n = "summarizer" -> "express_issue_identifier"
    [] n = "express_issue_identifier" -> "decision_extractor"
    [] n = "decision_extractor" -> "argument_identifier"
    [] n = "argument_identifier" -> "implicit_issue_identifier"
    [] n = "implicit_issue_identifier" -> "reasoning_tracer"
    [] n = "reasoning_tracer" -> "initial_ratio_decider"
    [] n = "initial_ratio_decider" -> "material_fact_highlighter"
    [] n = "material_fact_highlighter" -> "final_ratio_decider"
    [] n = "final_ratio_decider" -> END

EntryPoint == "summarizer"

None == "None"

\* ---- building the graph object: StateGraph(State), add_node, add_edge,
\* set_entry_point, in the order of the module's statements ----
StateGraph == [nodes |-> { }, edges |-> { }, entry |-> None]

add_node(w, n) == [w EXCEPT !.nodes = @ \cup { n }]

add_edge(w, a, b) == [w EXCEPT !.edges = @ \cup { << a, b >> }]

set_entry_point(w, n) == [w EXCEPT !.entry = n]

RECURSIVE AddNodes(_, _)
AddNodes(w, k) ==
  IF k = 0 THEN w ELSE add_node(AddNodes(w, k - 1), NodeOrder[k])

RECURSIVE AddEdges(_, _)
AddEdges(w, k) ==
  IF k = 0 THEN w ELSE add_edge(AddEdges(w, k - 1), NodeOrder[k], Edge(NodeOrder[k]))

BuildWorkflow ==
  set_entry_point(
    AddEdges(AddNodes(StateGraph, Len(NodeOrder)), Len(NodeOrder)),
    EntryPoint)

\* the targets of the edges leaving n, and the one the run follows
Successors(w, n) == { e[2] : e \in { x \in w.edges : x[1] = n } }

Successor(w, n) == CHOOSE m \in Successors(w, n) : TRUE

\* variant of router that answers with the successor of the current step
router_Successor(st) ==
  IF st.current_step \in Nodes THEN Edge(st.current_step) ELSE st.current_step

\* router(state): returns state["current_step"]; no edge of the graph uses it.
router(st) == st.current_step

\* a call of router: what it returns, and the heap and the dict it was given as
\* they are when it returns (it assigns to nothing)
router_call(h, st) == [ret |-> router(st), inState |-> st, heap |-> h]

\* ---- the prompts (first line of each stage's instruction template) ----
Prompt(n) ==
  CASE n = "summarizer" -> "Provide a concise summary of the key elements"
    [] n = "express_issue_identifier" -> "Identify and extract all quotations that state the legal issues"
    [] n = "decision_extractor" -> "Extract all quotations that detail the court's final decision"
    [] n = "argument_identifier" -> "Extract all quotations that present the key arguments"
    [] n = "implicit_issue_identifier" -> "Identify and extract any implicit legal issues"
    [] n = "reasoning_tracer" -> "Extract all quotations that demonstrate the court's reasoning"
    [] n = "initial_ratio_decider" -> "Extract all quotations that compose the initial ratio decidendi"
    [] n = "material_fact_highlighter" -> "Extract all quotations that highlight the material facts"
    [] n = "final_ratio_decider" -> "Extract all quotations that compose the final ratio decidendi"

\* ---- inputs ----
SeedTurns ==
  { HumanMessage("Case: Doe v. Roe. Facts: ... Decision: plaintiff wins."),
    AIMessage("earlier note") }

RECURSIVE SeqsUpTo(_, _)
SeqsUpTo(S, k) ==
  IF k = 0 THEN { << >> }
  ELSE LET shorter == SeqsUpTo(S, k - 1)
       IN shorter \cup { Append(s, t) : s \in shorter, t \in S }

Seeds == SeqsUpTo(SeedTurns, MaxSeedLen)

\* values of current_step a caller may put in the initial state
InitSteps == { "summarizer", "final_ratio_decider", "end", "bogus" }

\* the stubbed model: each kind is a fixed function of the call's input
StubKinds == { "stage_output", "canned" }

VARIABLES
  heap,      \* list objects: heap[r] is the content of the list referenced by r
  state,     \* channel values: [messages |-> reference, current_step |-> string]
  input,     \* the initial state the caller passed to the current run
  node,      \* the node the orchestrator executes next
  status,    \* "idle", "running", "done" or "failed"
  trace,     \* completed stage executions of the current run
  calls,     \* inputs of the llm.invoke calls of the current run
  result,    \* what the run returned to its caller: << >> or << final state >>
  runs,      \* number of runs started
  prev,      \* the last completed run before the current one: << >> or << record >>
  stub,      \* the kind of the stubbed model
  routed,    \* the direct call of router made so far: << >> or << its record >>
  workflow   \* the graph object: [nodes, edges, entry]

vars == << heap, state, input, node, status, trace, calls, result, runs, prev, stub,
           routed, workflow >>

\* the history the State currently holds
messages == heap[state.messages]
current_step == state.current_step

\* ---- the model call (graph.py:11) ----
StageOfPrompt(c) ==
  IF \E n \in Nodes : Prompt(n) = c
  THEN CHOOSE n \in Nodes : Prompt(n) = c
  ELSE "unknown"

llm_invoke(msgs) ==
  LET last == msgs[Len(msgs)]
  IN CASE stub = "stage_output" -> AIMessage(StageOfPrompt(last.content) \o "-output")
       [] stub = "canned" -> AIMessage("canned reply")

\* variants of list concatenation: an in-place extend, and swapped operands
ListAdd_InPlace(h, ref, items) ==
  [heap |-> [h EXCEPT ![ref] = @ \o items], ref |-> ref]

ListAdd_Prepend(h, ref, items) ==
  [heap |-> Append(h, items \o h[ref]), ref |-> Len(h) + 1]

\* ---- list concatenation: a + b builds a new list, operands untouched ----
ListAdd(h, ref, items) ==
  [heap |-> Append(h, h[ref] \o items), ref |-> Len(h) + 1]

\* variant of a stage function that also records its outbound prompt
StageBody_RecordsPrompt(h, st, n, next) ==
  LET arg == ListAdd(h, st.messages, << HumanMessage(Prompt(n)) >>)
      reply == llm_invoke(arg.heap[arg.ref])
      ret == ListAdd(arg.heap, arg.ref, << AIMessage(reply.content) >>)
  IN [argHeap |-> arg.heap,
      call |-> arg.heap[arg.ref],
      heap |-> ret.heap,
      inState |-> st,
      update |-> [messages |-> ret.ref, current_step |-> next]]

\* variant of a stage function that sends its prompt without the history
StageBody_PromptOnly(h, st, n, next) ==
  LET argHeap == Append(h, << HumanMessage(Prompt(n)) >>)
      reply == llm_invoke(argHeap[Len(argHeap)])
      ret == ListAdd(argHeap, st.messages, << AIMessage(reply.content) >>)
  IN [argHeap |-> argHeap,
      call |-> argHeap[Len(argHeap)],
      heap |-> ret.heap,
      inState |-> st,
      update |-> [messages |-> ret.ref, current_step |-> next]]

\* ---- a stage function: one model call, one returned update ----
\* argHeap is the heap once the call's argument list exists, call the list
\* given to llm.invoke, heap and update the outcome when the call returns,
\* inState the content of the dict the function was given, as it is on return
\* (the function assigns to no key of it).
StageBody(h, st, n, next) ==
  LET arg == ListAdd(h, st.messages, << HumanMessage(Prompt(n)) >>)
      reply == llm_invoke(arg.heap[arg.ref])
      ret == ListAdd(arg.heap, st.messages, << AIMessage(reply.content) >>)
  IN [argHeap |-> arg.heap,
      call |-> arg.heap[arg.ref],
      heap |-> ret.heap,
      inState |-> st,
      update |-> [messages |-> ret.ref, current_step |-> next]]

\* variant of the first stage returning messages only, current_step forgotten
summarizer_agent_NoStep(h, st) ==
  LET out == StageBody(h, st, "summarizer", "express_issue_identifier")
  IN [out EXCEPT !.update = [messages |-> out.update.messages]]

\* variant of the first stage alone recording its outbound prompt
summarizer_agent_RecordsPrompt(h, st) ==
  StageBody_RecordsPrompt(h, st, "summarizer", "express_issue_identifier")

summarizer_agent(h, st) == StageBody(h, st, "summarizer", "express_issue_identifier")
express_issue_identifier(h, st) == StageBody(h, st, "express_issue_identifier", "decision_extractor")
decision_extractor(h, st) == StageBody(h, st, "decision_extractor", "argument_identifier")
argument_identifier(h, st) == StageBody(h, st, "argument_identifier", "implicit_issue_identifier")
implicit_issue_identifier(h, st) == StageBody(h, st, "implicit_issue_identifier", "reasoning_tracer")
\* variant of reasoning_tracer sending the next stage's instruction
reasoning_tracer_WrongPrompt(h, st) ==
  LET out == StageBody(h, st, "initial_ratio_decider", "initial_ratio_decider")
  IN out

reasoning_tracer(h, st) == StageBody(h, st, "reasoning_tracer", "initial_ratio_decider")
initial_ratio_decider(h, st) == StageBody(h, st, "initial_ratio_decider", "material_fact_highlighter")
material_fact_highlighter(h, st) == StageBody(h, st, "material_fact_highlighter", "final_ratio_decider")
final_ratio_decider(h, st) == StageBody(h, st, "final_ratio_decider", "end")

\* workflow.add_node: the function registered under each node name
NodeFn(n, h, st) ==
  CASE n = "summarizer" -> summarizer_agent(h, st)
    [] n = "express_issue_identifier" -> express_issue_identifier(h, st)
    [] n = "decision_extractor" -> decision_extractor(h, st)
    [] n = "argument_identifier" -> argument_identifier(h, st)
    [] n = "implicit_issue_identifier" -> implicit_issue_identifier(h, st)
    [] n = "reasoning_tracer" -> reasoning_tracer(h, st)
    [] n = "initial_ratio_decider" -> initial_ratio_decider(h, st)
    [] n = "material_fact_highlighter" -> material_fact_highlighter(h, st)
    [] n = "final_ratio_decider" -> final_ratio_decider(h, st)

\* a node's returned dict is written to the channels: each key it holds
\* overwrites that channel, a channel it does not name keeps its value
ApplyUpdate(st, upd) ==
  [k \in DOMAIN st |-> IF k \in DOMAIN upd THEN upd[k] ELSE st[k]]

\* ---- the state machine ----
Init ==
  /\ heap = << << >> >>
  /\ state = [messages |-> 1, current_step |-> None]
  /\ input = [messages |-> << >>, current_step |-> None]
  /\ node = None
  /\ status = "idle"
  /\ trace = << >>
  /\ calls = << >>
  /\ result = << >>
  /\ runs = 0
  /\ prev = << >>
  /\ stub \in StubKinds
  /\ routed = << >>
  /\ workflow = BuildWorkflow

\* the stages a run has executed, and what a caller keeps of a completed run
Stages == [i \in 1..Len(trace) |-> trace[i].stage]

RunRecord == [input |-> input, stages |-> Stages, messages |-> result[1].messages]

\* variant of graph.invoke that resumes from the channel values the last run left
Invoke_KeepsHistory ==
  /\ status \in { "idle", "done", "failed" }
  /\ runs < MaxRuns
  /\ \E seed \in Seeds, step \in InitSteps :
       /\ heap' = << heap[state.messages] \o seed >>
       /\ state' = [messages |-> 1, current_step |-> step]
       /\ input' = [messages |-> seed, current_step |-> step]
  /\ node' = workflow.entry
  /\ status' = "running"
  /\ trace' = << >>
  /\ calls' = << >>
  /\ result' = << >>
  /\ runs' = runs + 1
  /\ prev' = IF status = "done" THEN << RunRecord >> ELSE prev
  /\ UNCHANGED << stub, routed, workflow >>

\* variant of graph.invoke that asks router for the node to start at
Invoke_RoutedEntry ==
  /\ status \in { "idle", "done", "failed" }
  /\ runs < MaxRuns
  /\ \E seed \in Seeds, step \in InitSteps :
       /\ heap' = << seed >>
       /\ state' = [messages |-> 1, current_step |-> step]
       /\ input' = [messages |-> seed, current_step |-> step]
  /\ node' = IF router(state') \in workflow.nodes THEN router(state') ELSE workflow.entry
  /\ routed' = << [arg |-> state', argMessages |-> heap'[1], ret |-> router(state')] >>
  /\ status' = "running"
  /\ trace' = << >>
  /\ calls' = << >>
  /\ result' = << >>
  /\ runs' = runs + 1
  /\ prev' = IF status = "done" THEN << RunRecord >> ELSE prev
  /\ UNCHANGED << stub, workflow >>

\* graph.invoke(initial state): the input is written to the channels and the
\* entry point is scheduled.
Invoke ==
  /\ status \in { "idle", "done", "failed" }
  /\ runs < MaxRuns
  /\ \E seed \in Seeds, step \in InitSteps :
       /\ heap' = << seed >>
       /\ state' = [messages |-> 1, current_step |-> step]
       /\ input' = [messages |-> seed, current_step |-> step]
  /\ node' = workflow.entry
  /\ status' = "running"
  /\ trace' = << >>
  /\ calls' = << >>
  /\ result' = << >>
  /\ runs' = runs + 1
  /\ prev' = IF status = "done" THEN << RunRecord >> ELSE prev
  /\ UNCHANGED << stub, routed, workflow >>

\* variant in which running a stage also adds an edge to the graph object
StageReturns_AddsEdge ==
  /\ status = "running"
  /\ node \in Nodes
  /\ LET out == NodeFn(node, heap, state)
     IN /\ heap' = out.heap
        /\ state' = ApplyUpdate(state, out.update)
        /\ calls' = Append(calls, out.call)
        /\ trace' = Append(trace,
                      [stage |-> node,
                       input |-> state,
                       inMessages |-> heap[state.messages],
                       inputAfter |-> out.inState,
                       output |-> out.update])
  /\ node' = Successor(workflow, node)
  /\ workflow' = add_edge(workflow, node, EntryPoint)
  /\ UNCHANGED << input, status, result, runs, prev, stub, routed >>

\* The scheduled node runs and its model call returns: the returned update
\* overwrites both channels and the node's static edge is followed.
StageReturns ==
  /\ status = "running"
  /\ node \in Nodes
  /\ LET out == NodeFn(node, heap, state)
     IN /\ heap' = out.heap
        /\ state' = ApplyUpdate(state, out.update)
        /\ calls' = Append(calls, out.call)
        /\ trace' = Append(trace,
                      [stage |-> node,
                       input |-> state,
                       inMessages |-> heap[state.messages],
                       inputAfter |-> out.inState,
                       output |-> out.update])
  /\ node' = Successor(workflow, node)
  /\ UNCHANGED << input, status, result, runs, prev, stub, routed, workflow >>

\* variant in which the stage swallows the exception and the run goes on
StageRaises_Swallow ==
  /\ status = "running"
  /\ node \in Nodes
  /\ LET out == NodeFn(node, heap, state)
     IN /\ heap' = out.argHeap
        /\ calls' = Append(calls, out.call)
  /\ node' = Successor(workflow, node)
  /\ UNCHANGED << state, input, status, trace, result, runs, prev, stub, routed, workflow >>

\* The scheduled node runs and its model call raises: nothing catches the
\* exception, it leaves the stage function and graph.invoke.
StageRaises ==
  /\ status = "running"
  /\ node \in Nodes
  /\ LET out == NodeFn(node, heap, state)
     IN /\ heap' = out.argHeap
        /\ calls' = Append(calls, out.call)
  /\ status' = "failed"
  /\ UNCHANGED << state, input, node, trace, result, runs, prev, stub, routed, workflow >>

\* END is reached: graph.invoke returns the channel values.
Return ==
  /\ status = "running"
  /\ node = END
  /\ status' = "done"
  /\ result' = << [messages |-> heap[state.messages], current_step |-> state.current_step] >>
  /\ UNCHANGED << heap, state, input, node, trace, calls, runs, prev, stub, routed, workflow >>

Next == Invoke \/ StageReturns \/ StageRaises \/ Return

Spec == Init /\ [][Next]_vars

\* One invocation of the graph. graph.invoke drives its loop synchronously: while
\* a node is scheduled it is run (its model call returns or raises), and when END
\* is reached the call returns; hence the weak fairness of these steps.
InvokeOnce == status = "idle" /\ Invoke

NextOneRun == InvokeOnce \/ StageReturns \/ StageRaises \/ Return

FairSpec ==
  /\ Init
  /\ [][NextOneRun]_vars
  /\ WF_vars(StageReturns \/ StageRaises)
  /\ WF_vars(Return)

\* ---- router called on its own ----
\* values of current_step in the State given to router
RouterSteps == Nodes \cup { "end", "bogus" }

RouterInit ==
  /\ \E seed \in Seeds, step \in RouterSteps :
       /\ heap = << seed >>
       /\ state = [messages |-> 1, current_step |-> step]
       /\ input = [messages |-> seed, current_step |-> step]
  /\ node = None
  /\ status = "idle"
  /\ trace = << >>
  /\ calls = << >>
  /\ result = << >>
  /\ runs = 0
  /\ prev = << >>
  /\ stub \in StubKinds
  /\ routed = << >>
  /\ workflow = BuildWorkflow

\* router(state) is called; the State is then what the call left of it
RouterCall ==
  /\ routed = << >>
  /\ LET r == router_call(heap, state)
     IN /\ routed' = << [arg |-> state,
                         argMessages |-> heap[state.messages],
                         ret |-> r.ret] >>
        /\ state' = r.inState
        /\ heap' = r.heap
  /\ UNCHANGED << input, node, status, trace, calls, result, runs, prev, stub, workflow >>

RouterSpec == RouterInit /\ [][RouterCall]_vars

\* ======================= the claims =======================

IsPrefix(s, t) == Len(s) <= Len(t) /\ SubSeq(t, 1, Len(s)) = s

Last(s) == s[Len(s)]

\* the state a stage was given when no stage has completed yet
InitialState == [messages |-> 1, current_step |-> input.current_step]

\* C1: a run executes the stages in the order summarizer, express_issue_identifier,
\* decision_extractor, argument_identifier, implicit_issue_identifier,
\* reasoning_tracer, initial_ratio_decider, material_fact_highlighter,
\* final_ratio_decider: what has been executed is always a prefix of that order
\* (nothing skipped, nothing repeated), the node scheduled next is the next of the
\* order, and the terminal marker is scheduled, and the run completes, only after
\* all nine.
C1_StagesInOrder ==
  LET order == << "summarizer", "express_issue_identifier", "decision_extractor",
                  "argument_identifier", "implicit_issue_identifier",
                  "reasoning_tracer", "initial_ratio_decider",
                  "material_fact_highlighter", "final_ratio_decider" >>
  IN /\ Len(trace) <= 9
     /\ Stages = SubSeq(order, 1, Len(trace))
     /\ (status \in { "running", "failed" } /\ Len(trace) < 9) => node = order[Len(trace) + 1]
     /\ (status = "running" /\ Len(trace) = 9) => node = END
     /\ node = END => Stages = order
     /\ status = "done" => Stages = order /\ node = END

C1_Witness == status = "done" /\ Len(trace) = 9 /\ Last(Stages) = "final_ratio_decider"

\* C2 (as claimed): after every completed stage, the current_step it returned is
\* the successor the edge table declares for it, the end of the graph (END) for
\* the last stage.
C2_CurrentStepIsDeclaredSuccessor ==
  \A i \in 1..Len(trace) : trace[i].output.current_step = Edge(trace[i].stage)

\* C3: every completed stage lengthens the history by the same k, k being 1 or 2,
\* a completed run returns a history of the seed's length plus 9 * k, and within a
\* run the length of messages never decreases.
C3_LengthPerStage ==
  /\ [](\E k \in { 1, 2 } :
          /\ \A i \in 1..Len(trace) :
               Len(heap[trace[i].output.messages]) = Len(trace[i].inMessages) + k
          /\ status = "done" => Len(result[1].messages) = Len(input.messages) + 9 * k)
  /\ [][runs' = runs => Len(messages') >= Len(messages)]_vars

C3_Witness ==
  status = "done" /\ Len(input.messages) = 2 /\ Len(result[1].messages) = 11

\* C4 (as claimed): with a seed of exactly one user turn and the stub replying
\* "<stage>-output", the run returns 1 + 2 * 9 = 19 turns, the last of them
\* "final_ratio_decider-output".
C4_NineteenTurns ==
  (/\ status = "done"
   /\ stub = "stage_output"
   /\ Len(input.messages) = 1
   /\ input.messages[1].role = "human")
  => /\ Len(result[1].messages) = 19
     /\ Last(result[1].messages).content = "final_ratio_decider-output"

\* C4 (amended): with a seed of exactly one user turn and the stub replying
\* "<stage>-output", the run returns 1 + 1 * 9 = 10 turns (the seed and the nine
\* replies; no prompt is recorded), the last of them the model turn
\* "final_ratio_decider-output".
C4_TenTurns ==
  (/\ status = "done"
   /\ stub = "stage_output"
   /\ Len(input.messages) = 1
   /\ input.messages[1].role = "human")
  => /\ Len(result[1].messages) = 10
     /\ Last(result[1].messages) = AIMessage("final_ratio_decider-output")
     /\ result[1].messages[1] = input.messages[1]

C4_Witness ==
  /\ status = "done"
  /\ stub = "stage_output"
  /\ Len(input.messages) = 1
  /\ input.messages[1].role = "human"
  /\ Last(result[1].messages).content = "final_ratio_decider-output"

\* C5: the history is append-only: within a run, messages in one state is a prefix
\* of messages in the next, and the seed turns are always its first turns, in
\* their original order.
C5_AppendOnly ==
  /\ [](status # "idle" => IsPrefix(input.messages, messages))
  /\ [][runs' = runs => IsPrefix(messages, messages')]_vars

C5_Witness ==
  /\ Len(trace) >= 2
  /\ Len(input.messages) = 2
  /\ input.messages[1] # input.messages[2]
  /\ Len(messages) > Len(input.messages)

\* C6: when a model call has not returned (a call was made and its stage did not
\* complete), the run has failed: the failing stage is the k-th of the order and
\* exactly the k-1 before it have completed, it made exactly one call, the State
\* is the one stage k was given (nothing appended, current_step not set), nothing
\* is returned, and the failed run makes no further step (no later stage, no
\* retry, no result).
C6_FailureAborts ==
  /\ [](Len(calls) # Len(trace) =>
          /\ status = "failed"
          /\ Len(calls) = Len(trace) + 1
          /\ Len(trace) < 9
          /\ node = NodeOrder[Len(trace) + 1]
          /\ Stages = SubSeq(NodeOrder, 1, Len(trace))
          /\ state = (IF trace = << >> THEN InitialState ELSE Last(trace).output)
          /\ messages = (IF trace = << >> THEN input.messages
                         ELSE Last(trace).inMessages \o << Last(messages) >>)
          /\ result = << >>)
  /\ [][(status = "failed" /\ runs' = runs) =>
          UNCHANGED << state, messages, trace, calls, result, status, node >>]_vars

C6_Witness ==
  /\ status = "failed"
  /\ node = "decision_extractor"
  /\ Len(trace) = 2
  /\ Len(calls) = 3

\* C7 (as claimed): the orchestrator does not go on when current_step names no
\* registered stage: no stage runs on a State whose current_step is outside the
\* registry, and no run completes as a success with such a current_step.
C7_UnknownStepStopsTheRun ==
  /\ \A i \in 1..Len(trace) : router(trace[i].input) \in Nodes
  /\ status = "done" => router(state) \in Nodes \cup { END }

\* C8: a run makes at most 9 model calls and executes at most 9 stages, a run that
\* completes has executed exactly 9 stages with exactly 9 calls, after the ninth
\* stage no stage is scheduled, and every started run ends (completes, or fails on
\* a model call).
C8_TerminatesAfterNine ==
  /\ [](/\ Len(calls) <= 9
        /\ Len(trace) <= 9
        /\ status = "done" => Len(trace) = 9 /\ Len(calls) = 9
        /\ (status = "running" /\ Len(trace) = 9) => node \notin Nodes)
  /\ (status = "running") ~> (status \in { "done", "failed" })

C8_Witness == status = "done" /\ Len(calls) = 9 /\ Len(trace) = 9 /\ node = END

\* C9: no stage changes the State it was given: the list its input referenced
\* still holds what it held at the call, the dict it was given holds the same
\* values on return, and the returned messages is another list object than the
\* input's.
C9_InputNotMutated ==
  \A i \in 1..Len(trace) :
    /\ heap[trace[i].input.messages] = trace[i].inMessages
    /\ trace[i].inputAfter = trace[i].input
    /\ trace[i].output.messages # trace[i].input.messages

C9_Witness ==
  /\ Len(trace) = 9
  /\ heap[trace[1].input.messages] = input.messages
  /\ heap[trace[9].output.messages] # input.messages

\* C10: with the stubbed model, a completed run on the same input as the last
\* completed run executed the same stages and returned the same history.
C10_SameInputSameRun ==
  (status = "done" /\ prev # << >> /\ prev[1].input = input)
  => /\ prev[1].stages = Stages
     /\ prev[1].messages = result[1].messages

C10_Witness ==
  /\ status = "done"
  /\ prev # << >>
  /\ prev[1].input = input
  /\ Len(prev[1].messages) = Len(input.messages) + 9

\* C11: for every State whose current_step is a known stage name, router returns
\* exactly that name, and the State holds the same messages and the same
\* current_step after the call as before it.
C11_RouterPassthrough ==
  (routed # << >> /\ routed[1].arg.current_step \in Nodes)
  => /\ routed[1].ret = routed[1].arg.current_step
     /\ state = routed[1].arg
     /\ heap[state.messages] = routed[1].argMessages

C11_Witness ==
  /\ routed # << >>
  /\ routed[1].arg.current_step = "reasoning_tracer"
  /\ routed[1].ret = "reasoning_tracer"
  /\ Len(heap[state.messages]) = 2

\* C12: the graph object in use is, in every state, the one a build from the
\* declarations yields now (so a second build gives the same table as the first,
\* and no run, stage execution or return has added, removed or changed a node or
\* an edge), and in it every stage name has exactly one successor, the declared one.
C12_RegistryStatic ==
  /\ workflow = BuildWorkflow
  /\ workflow.nodes = Nodes
  /\ \A n \in workflow.nodes : Successors(workflow, n) = { Edge(n) }
  /\ Cardinality(workflow.edges) = Cardinality(workflow.nodes)

C12_Witness ==
  /\ status = "done"
  /\ Len(trace) = 9
  /\ runs = MaxRuns
  /\ Successors(workflow, "final_ratio_decider") = { END }

\* C13 (as claimed): whenever a stage function has been invoked by the pipeline,
\* the current_step of the State it was given is that stage's own name, for the
\* entry stage as for every later stage.
C13_InputStepIsOwnName ==
  \A i \in 1..Len(trace) : trace[i].input.current_step = trace[i].stage

\* C14: every completed stage execution made exactly one model call (the calls of
\* a run are one per completed stage, plus the one that raised if the run failed);
\* the call's input is the stage's input messages followed by one user turn
\* holding that stage's instruction; and the output messages are the input
\* messages followed by one model turn, the reply to that call.
C14_OneCallOneReply ==
  /\ Len(calls) = Len(trace) + (IF status = "failed" THEN 1 ELSE 0)
  /\ \A i \in 1..Len(trace) :
       LET e == trace[i]
           out == heap[e.output.messages]
       IN /\ calls[i] = e.inMessages \o << [role |-> "human", content |-> Prompt(e.stage)] >>
          /\ Len(out) = Len(e.inMessages) + 1
          /\ SubSeq(out, 1, Len(e.inMessages)) = e.inMessages
          /\ Last(out).role = "ai"
          /\ Last(out).content = llm_invoke(calls[i]).content

C14_Witness ==
  /\ Len(trace) >= 6
  /\ trace[6].stage = "reasoning_tracer"
  /\ Last(calls[6]) = HumanMessage("Extract all quotations that demonstrate the court's reasoning")
  /\ Last(heap[trace[6].output.messages]) = AIMessage("reasoning_tracer-output")

\* C15: the model calls are sequential and cumulative: there is never more than one
\* call beyond the completed stages, every recorded reply is a model turn, and the
\* input of the k-th call is the seed turns, then the replies of stages 1..k-1 in
\* stage order, then the prompt of the k-th stage (so it holds no earlier prompt).
C15_CallsBuildOnReplies ==
  LET replies == [i \in 1..Len(trace) |-> Last(heap[trace[i].output.messages])]
  IN /\ Len(calls) <= Len(trace) + 1
     /\ Len(calls) <= Len(NodeOrder)
     /\ \A i \in 1..Len(trace) : replies[i].role = "ai"
     /\ \A k \in 1..Len(calls) :
          calls[k] = input.messages \o SubSeq(replies, 1, k - 1)
                       \o << HumanMessage(Prompt(NodeOrder[k])) >>

C15_Witness ==
  /\ Len(calls) = 9
  /\ Len(input.messages) = 2
  /\ Len(calls[9]) = 11
  /\ calls[9][3] = AIMessage("summarizer-output")
  /\ calls[9][10] = AIMessage("material_fact_highlighter-output")

C17_BothFieldsSet ==
  /\ \A i \in 1..Len(trace) : DOMAIN trace[i].output = { "messages", "current_step" }
  /\ Len(trace) >= 1 =>
       /\ DOMAIN state = { "messages", "current_step" }
       /\ state.messages \in 1..Len(heap)
       /\ state.current_step \in
            { "express_issue_identifier", "decision_extractor", "argument_identifier",
              "implicit_issue_identifier", "reasoning_tracer", "initial_ratio_decider",
              "material_fact_highlighter", "final_ratio_decider", "end" }

C17_Witness ==
  /\ Len(trace) = 9
  /\ input.current_step = "bogus"
  /\ state.current_step = "end"
  /\ status = "running"
====
